---- MODULE Spec2Model ----
(***************************************************************************)
(* deps2changesets: detection of dependency changes in the package.json    *)
(* files of a Git commit range.                                            *)
(*                                                                         *)
(* The source tree holds several historical variants of the same classes.  *)
(* The model follows, for each operation, the variant named in             *)
(* MODEL_MAP.json: the scope-aware differ (includedDepTypes), the resolver *)
(* that compares absolute paths, and the detector that loads the workspace *)
(* itself after the changed-file filter.                                   *)
(*                                                                         *)
(* Eight specifications:                                                   *)
(*   SpecDiff     the pure differ comparePackageJsons on bounded manifests;*)
(*   Spec         one run of DependencyChangeAnalyzer.detectChangedPackages*)
(*                against a nondeterministic Git client and workspace;     *)
(*   SpecSummary  generateSummaryFromChanges on bounded change lists;      *)
(*   SpecWrite    runs of createChangesets against one .changeset          *)
(*                directory;                                               *)
(*   SpecRead     analyzeDependencyChanges with its two reads settling in  *)
(*                either order;                                            *)
(*   SpecRange    parseGitRange on bounded range strings;                  *)
(*   SpecStatus   GitClientAdapter.getChangedFiles on bounded diff         *)
(*                summaries, followed by the detector's filter;            *)
(*   SpecCli      one run of the command, from its arguments to its exit.  *)
(***************************************************************************)
EXTENDS Integers, Sequences, FiniteSets, TLC

VARIABLES
    pc,                 \* position of the run
    includedDepTypes,   \* DependencyChangeAnalyzer.includedDepTypes
    basePackageJson,    \* manifest parsed at fromRef (differ input)
    headPackageJson,    \* manifest parsed at toRef (differ input)
    dependencyChanges,  \* result of the last comparePackageJsons
    files,              \* what getChangedFiles resolved with
    packageJsonFiles,   \* the files kept by the filter
    workspacePackages,  \* WorkspacePackages.packages once loaded
    i,                  \* index of the file the loop is at
    pkg,                \* package the current file resolved to
    changedPackages,    \* the accumulating result list
    result,             \* what detectChangedPackages resolved with
    calls,              \* log of collaborator calls and path lookups
    summary,            \* the summary last rendered
    publicPackages,     \* the records createChangesets was called with
    releaseType,        \* the release type createChangesets was called with
    j,                  \* index of the record the writer's loop is at
    changesetIds,       \* the accumulating result list of createChangesets
    changesets,         \* the changesets persisted under cwd/.changeset
    writes,             \* log of writeChangeset calls of the current run
    removed,            \* the changesets the current run removed
    nextId,             \* the id the next successful write returns
    history,            \* the runs of createChangesets that have ended
    repository,         \* what the manifest under analysis holds at each ref
    promises,           \* the two getFileContent promises given to Promise.all
    completed,          \* the positions of the promises, in order of settling
    range,              \* the --range argument
    gitRange,           \* what parseGitRange returned
    dryRun,             \* the --dry-run argument
    changesetDirectory, \* whether cwd/.changeset exists
    createCalls,        \* log of createChangesets calls made by the command
    diffSummary         \* the files of git diffSummary(fromRef, toRef)

vars == <<pc, includedDepTypes, basePackageJson, headPackageJson,
          dependencyChanges, files, packageJsonFiles, workspacePackages, i,
          pkg, changedPackages, result, calls, summary, publicPackages,
          releaseType, j, changesetIds, changesets, writes, removed, nextId,
          history, repository, promises, completed, range, gitRange, dryRun,
          changesetDirectory, createCalls, diffSummary>>

writerVars == <<summary, publicPackages, releaseType, j, changesetIds,
                changesets, writes, removed, nextId, history>>

detectVars == <<files, packageJsonFiles, workspacePackages, i, pkg,
                changedPackages, result, calls>>

readVars == <<repository, promises, completed>>

cliVars == <<range, gitRange, dryRun, changesetDirectory, createCalls>>

boundaryVars == <<readVars, cliVars, diffSummary>>

----------------------------------------------------------------------------
(* Bounds of the model *)

\* total number of dependency entries in the two manifests under comparison
MaxDeps == 2

\* longest includedDepTypes list the differ is applied to
MaxScopes == 2

\* longest changed-file list getChangedFiles resolves with
MaxFiles == 2

\* longest --range argument, in characters
MaxRangeLen == 7

\* most lines a file of the repository holds at a ref
MaxLines == 2

\* dependency names, in the key order Object.keys yields them
NameOrder == <<"axios", "lodash">>

Names == {NameOrder[k] : k \in 1..Len(NameOrder)}

\* version strings: the empty string and two distinct ranges
Versions == {"", "^1.0.0", "^2.0.0"}

\* what indexing an object with a missing key yields
Undefined == "<undefined>"

\* no manifest parsed (yet)
NoManifest == [none |-> TRUE]

\* findByFilePath found nothing (undefined)
NoPackage == [none |-> TRUE]

----------------------------------------------------------------------------
(* Types *)

validDepTypes == <<"prod", "dev", "peer", "optional">>

DepType == {validDepTypes[k] : k \in 1..Len(validDepTypes)}

DEP_TYPE_MAP ==
    [prod     |-> "dependencies",
     dev      |-> "devDependencies",
     peer     |-> "peerDependencies",
     optional |-> "optionalDependencies"]

DepKeys == {DEP_TYPE_MAP[t] : t \in DepType}

----------------------------------------------------------------------------
(* Helpers over sequences *)

RECURSIVE SeqsUpTo(_, _)
SeqsUpTo(S, n) ==
    IF n = 0 THEN {<<>>}
    ELSE LET shorter == SeqsUpTo(S, n - 1)
         IN  shorter \cup {Append(s, x) : s \in {t \in shorter : Len(t) = n - 1}, x \in S}

RECURSIVE KSubsets(_, _)
KSubsets(S, k) ==
    IF k = 0 THEN {{}}
    ELSE LET smaller == KSubsets(S, k - 1)
         IN  smaller \cup {e \cup {x} : e \in smaller, x \in S}

RECURSIVE FlatMap(_, _)
FlatMap(F(_), s) ==
    IF s = <<>> THEN <<>> ELSE F(Head(s)) \o FlatMap(F, Tail(s))

Range(s) == {s[k] : k \in DOMAIN s}

\* [...new Set(list)]: first occurrences, in order
RECURSIVE Unique(_)
Unique(s) ==
    IF s = <<>> THEN <<>>
    ELSE LET init == Unique(SubSeq(s, 1, Len(s) - 1))
             last == s[Len(s)]
         IN  IF last \in Range(init) THEN init ELSE Append(init, last)

----------------------------------------------------------------------------
(* Manifest Differ *)

\* basePackageJson[depType] || {}
DepsOf(packageJson, depType) ==
    IF depType \in DOMAIN packageJson THEN packageJson[depType] ELSE <<>>

\* Object.keys(deps)
ObjectKeys(deps) == SelectSeq(NameOrder, LAMBDA n : n \in DOMAIN deps)

\* deps[name]
Lookup(deps, name) == IF name \in DOMAIN deps THEN deps[name] ELSE Undefined

\* JavaScript truthiness of a string | undefined
Truthy(v) == v # Undefined /\ v # ""

\* "updated" without the test oldVersion !== newVersion
CompareMutantNoInequality(oldVersion, newVersion, name) ==
    IF Truthy(oldVersion) /\ Truthy(newVersion)
    THEN <<[name |-> name, type |-> "updated",
            oldVersion |-> oldVersion, newVersion |-> newVersion]>>
    ELSE IF ~Truthy(oldVersion) /\ Truthy(newVersion)
    THEN <<[name |-> name, type |-> "added", newVersion |-> newVersion]>>
    ELSE IF Truthy(oldVersion) /\ ~Truthy(newVersion)
    THEN <<[name |-> name, type |-> "removed", oldVersion |-> oldVersion]>>
    ELSE <<>>

\* "removed" that also carries the (empty) new version
CompareMutantRemovedCarriesNew(oldVersion, newVersion, name) ==
    IF Truthy(oldVersion) /\ Truthy(newVersion) /\ oldVersion # newVersion
    THEN <<[name |-> name, type |-> "updated",
            oldVersion |-> oldVersion, newVersion |-> newVersion]>>
    ELSE IF ~Truthy(oldVersion) /\ Truthy(newVersion)
    THEN <<[name |-> name, type |-> "added", newVersion |-> newVersion]>>
    ELSE IF Truthy(oldVersion) /\ ~Truthy(newVersion)
    THEN <<[name |-> name, type |-> "removed",
            oldVersion |-> oldVersion, newVersion |-> newVersion]>>
    ELSE <<>>

\* "added" decided by absence of the old key, "removed" still by falsiness
CompareMutantAddedByAbsence(oldVersion, newVersion, name) ==
    IF Truthy(oldVersion) /\ Truthy(newVersion) /\ oldVersion # newVersion
    THEN <<[name |-> name, type |-> "updated",
            oldVersion |-> oldVersion, newVersion |-> newVersion]>>
    ELSE IF oldVersion = Undefined /\ Truthy(newVersion)
    THEN <<[name |-> name, type |-> "added", newVersion |-> newVersion]>>
    ELSE IF Truthy(oldVersion) /\ ~Truthy(newVersion)
    THEN <<[name |-> name, type |-> "removed", oldVersion |-> oldVersion]>>
    ELSE <<>>

\* the callback of [...allDeps].flatMap
CompareVersions(oldVersion, newVersion, name) ==
    IF Truthy(oldVersion) /\ Truthy(newVersion) /\ oldVersion # newVersion
    THEN <<[name |-> name, type |-> "updated",
            oldVersion |-> oldVersion, newVersion |-> newVersion]>>
    ELSE IF ~Truthy(oldVersion) /\ Truthy(newVersion)
    THEN <<[name |-> name, type |-> "added", newVersion |-> newVersion]>>
    ELSE IF Truthy(oldVersion) /\ ~Truthy(newVersion)
    THEN <<[name |-> name, type |-> "removed", oldVersion |-> oldVersion]>>
    ELSE <<>>

\* the callback of depTypes.flatMap
CompareDepType(base, head, depType) ==
    LET baseDeps == DepsOf(base, depType)
        headDeps == DepsOf(head, depType)
        allDeps  == Unique(ObjectKeys(baseDeps) \o ObjectKeys(headDeps))
        One(name) == CompareVersions(Lookup(baseDeps, name),
                                     Lookup(headDeps, name), name)
    IN  FlatMap(One, allDeps)

\* every block, whatever the included types
SelectedDepKeysAll(included) ==
    <<"dependencies", "devDependencies", "peerDependencies", "optionalDependencies">>

\* the blocks of the included types without the Set: one per entry
SelectedDepKeysRepeated(included) ==
    [k \in 1..Len(included) |-> DEP_TYPE_MAP[included[k]]]

\* [...new Set(this.includedDepTypes.map((t) => DEP_TYPE_MAP[t]))]
SelectedDepKeys(included) ==
    Unique([k \in 1..Len(included) |-> DEP_TYPE_MAP[included[k]]])

comparePackageJsons(base, head, included) ==
    LET One(depType) == CompareDepType(base, head, depType)
    IN  FlatMap(One, SelectedDepKeys(included))

----------------------------------------------------------------------------
(* Inputs of the differ *)

Slots == {"base", "head"} \X DepKeys \X Names

\* an assignment of versions to at most MaxDeps (side, block, name) slots
DiffInputs == UNION {[E -> Versions] : E \in KSubsets(Slots, MaxDeps)}

\* the manifest of one side: name, version, a "dependencies" block (possibly
\* empty) and every other block that has an entry
MkManifest(side, f, version) ==
    LET Has(k) == \E n \in Names : <<side, k, n>> \in DOMAIN f
        keys == {"dependencies"} \cup {k \in DepKeys : Has(k)}
    IN  [name |-> "test-package", version |-> version] @@
        [k \in keys |->
            [n \in {m \in Names : <<side, k, m>> \in DOMAIN f} |-> f[<<side, k, n>>]]]

\* no createChangesets call has been made
IdleWriter ==
    /\ summary = <<>>
    /\ publicPackages = <<>>
    /\ releaseType = "patch"
    /\ j = 0
    /\ changesetIds = <<>>
    /\ changesets = {}
    /\ writes = <<>>
    /\ removed = {}
    /\ nextId = 1
    /\ history = <<>>

\* no read is pending
IdleRead ==
    /\ repository = <<>>
    /\ promises = <<>>
    /\ completed = <<>>

\* the command has not been given arguments
NoRange == [from |-> <<>>, to |-> <<>>]

IdleCli ==
    /\ range = <<>>
    /\ gitRange = NoRange
    /\ dryRun = FALSE
    /\ changesetDirectory = TRUE
    /\ createCalls = <<>>

IdleBoundary ==
    /\ IdleRead
    /\ IdleCli
    /\ diffSummary = <<>>

IdleDetect ==
    /\ files = <<>>
    /\ packageJsonFiles = <<>>
    /\ workspacePackages = <<>>
    /\ i = 0
    /\ pkg = NoPackage
    /\ changedPackages = <<>>
    /\ result = <<>>
    /\ calls = <<>>

\* the manifests under comparison: base at version 1.0.0, head at 1.0.1
InitDiff ==
    /\ pc = "diff"
    /\ includedDepTypes = <<>>
    /\ \E f \in DiffInputs :
          /\ basePackageJson = MkManifest("base", f, "1.0.0")
          /\ headPackageJson = MkManifest("head", f, "1.0.1")
    /\ dependencyChanges = <<>>
    /\ IdleDetect
    /\ IdleWriter
    /\ IdleBoundary

\* new DependencyChangeAnalyzer(..., included).comparePackageJsons(base, head)
Compare ==
    /\ pc = "diff"
    /\ pc' = "diffed"
    /\ \E included \in SeqsUpTo(DepType, MaxScopes) :
          /\ includedDepTypes' = included
          /\ dependencyChanges' =
                comparePackageJsons(basePackageJson, headPackageJson, included)
    /\ UNCHANGED <<basePackageJson, headPackageJson>>
    /\ UNCHANGED detectVars
    /\ UNCHANGED <<writerVars, boundaryVars>>

NextDiff == Compare

SpecDiff == InitDiff /\ [][NextDiff]_vars

----------------------------------------------------------------------------
(* Paths.  A path string is a sequence of tokens: the separator "/", the    *)
(* literal text "package.json", and other pieces of text containing         *)
(* neither.  "my-package.json" is <<"my-", "package.json">>.                *)

\* String.prototype.endsWith
EndsWith(str, suffix) ==
    /\ Len(suffix) <= Len(str)
    /\ SubSeq(str, Len(str) - Len(suffix) + 1, Len(str)) = suffix

StartsWith(str, prefix) ==
    /\ Len(prefix) <= Len(str)
    /\ SubSeq(str, 1, Len(prefix)) = prefix

\* the segments between separators
RECURSIVE Segments(_)
Segments(str) ==
    IF str = <<>> THEN <<>>
    ELSE IF Head(str) = "/" THEN <<<<>>>> \o Segments(Tail(str))
    ELSE LET rest == Segments(Tail(str))
         IN  IF Tail(str) = <<>> \/ Tail(str)[1] = "/"
             THEN <<<<Head(str)>>>> \o (IF Tail(str) = <<>> THEN <<>> ELSE Segments(Tail(Tail(str))))
             ELSE <<<<Head(str)>> \o Head(rest)>> \o Tail(rest)

\* drop empty and "." segments, let ".." remove the segment before it
RECURSIVE NormalizeSegments(_, _)
NormalizeSegments(done, todo) ==
    IF todo = <<>> THEN done
    ELSE LET seg == Head(todo)
         IN  IF seg = <<>> \/ seg = <<".">>
             THEN NormalizeSegments(done, Tail(todo))
             ELSE IF seg = <<"..">>
             THEN NormalizeSegments(
                      IF done = <<>> THEN <<>> ELSE SubSeq(done, 1, Len(done) - 1),
                      Tail(todo))
             ELSE NormalizeSegments(Append(done, seg), Tail(todo))

\* the string of an absolute path with the given segments
RECURSIVE AbsoluteString(_)
AbsoluteString(segs) ==
    IF segs = <<>> THEN <<>>
    ELSE <<"/">> \o Head(segs) \o AbsoluteString(Tail(segs))

IsAbsolute(str) == str # <<>> /\ Head(str) = "/"

\* path.resolve(cwd, filePath), cwd absolute
PathResolve(cwd, filePath) ==
    IF IsAbsolute(filePath)
    THEN AbsoluteString(NormalizeSegments(<<>>, Segments(filePath)))
    ELSE AbsoluteString(NormalizeSegments(<<>>, Segments(cwd) \o Segments(filePath)))

\* path.join(dir, name), dir absolute
PathJoin(dir, name) ==
    AbsoluteString(NormalizeSegments(<<>>, Segments(dir) \o Segments(name)))

\* path.relative(from, to) for two absolute paths, to inside from
PathRelative(from, to) ==
    LET f == NormalizeSegments(<<>>, Segments(from))
        t == NormalizeSegments(<<>>, Segments(to))
        inner == AbsoluteString(SubSeq(t, Len(f) + 1, Len(t)))
    IN  IF inner = <<>> THEN <<>> ELSE Tail(inner)

PackageJsonName == <<"package.json">>

----------------------------------------------------------------------------
(* Workspace Resolver *)

\* the working directory the tool runs in
Cwd == <<"/", "test">>

\* Array.prototype.find: the first match, or undefined
RECURSIVE Find(_, _)
Find(Match(_), packages) ==
    IF packages = <<>> THEN NoPackage
    ELSE IF Match(Head(packages)) THEN Head(packages)
    ELSE Find(Match, Tail(packages))

\* the variant that also accepts a changed path ending with the package's
\* relative manifest path
findByFilePathSuffix(packages, filePath) ==
    LET Match(p) ==
            LET packageJsonPath == PathRelative(Cwd, PathJoin(p.dir, PackageJsonName))
            IN  packageJsonPath = filePath \/ EndsWith(filePath, packageJsonPath)
    IN  Find(Match, packages)

findByFilePath(packages, filePath) ==
    LET absoluteFilePath == PathResolve(Cwd, filePath)
        Match(p) == absoluteFilePath = PathJoin(p.dir, PackageJsonName)
    IN  Find(Match, packages)

\* what getPackages resolves with: an optional root package and the packages
\* below it; a package is public when its manifest has no "private" field
MkPackage(name, dir, relativeDir, kind) ==
    [dir |-> dir, relativeDir |-> relativeDir,
     packageJson |->
        IF kind = "private"
        THEN [name |-> name, version |-> "1.0.0", private |-> TRUE]
        ELSE [name |-> name, version |-> "1.0.0"]]

PackageKinds == {"absent", "public", "private"}

GetPackagesResults ==
    {(IF root = "absent" THEN <<>>
      ELSE [rootPackage |-> MkPackage("root", Cwd, <<".">>, root)])
     @@
     [packages |->
        IF a = "absent" THEN <<>>
        ELSE <<MkPackage("pkg-a", Cwd \o <<"/", "packages", "/", "a">>,
                         <<"packages", "/", "a">>, a)>>]
     : root \in PackageKinds, a \in PackageKinds}

\* WorkspacePackages.load
Load(listing) ==
    IF "rootPackage" \in DOMAIN listing
    THEN <<listing["rootPackage"]>> \o listing["packages"]
    ELSE listing["packages"]

\* no package is taken as private
IsPrivateNever(p) == FALSE

\* the flag looked for on the package instead of on its manifest
IsPrivateOfPackage(p) == "private" \in DOMAIN p /\ p["private"]

\* pkg.packageJson.private, as a condition
IsPrivate(p) == "private" \in DOMAIN p.packageJson /\ p.packageJson["private"]

----------------------------------------------------------------------------
(* Git client *)

FromRef == "main"

ToRef == "HEAD"

ChangedPaths ==
    {<<"package.json">>,
     <<"packages", "/", "a", "/", "package.json">>,
     <<"packages", "/", "a", "/", "nested", "/", "package.json">>,
     <<"packages", "/", "a", "/", "my-", "package.json">>,
     <<"README.md">>}

Statuses == {"modified", "added", "removed"}

ChangedFile == [path : ChangedPaths, status : Statuses]

\* what getFileContent can resolve with: the JSON text of a manifest, text
\* that is no JSON, or a rejection
ReadRejected == [rejected |-> TRUE]

MalformedJson == [malformed |-> TRUE]

FixtureManifests ==
    {[name |-> "test-package", version |-> "1.0.0",
      dependencies |-> [lodash |-> "^1.0.0"]],
     [name |-> "test-package", version |-> "1.0.0",
      dependencies |-> [lodash |-> "^2.0.0"]],
     [name |-> "test-package", version |-> "1.0.0",
      dependencies |-> [lodash |-> "^1.0.0"],
      devDependencies |-> [axios |-> "^1.0.0"]]}

ReadOutcomes == FixtureManifests \cup {ReadRejected, MalformedJson}

\* JSON.parse succeeded
IsManifest(content) == "name" \in DOMAIN content

----------------------------------------------------------------------------
(* Change Detector *)

\* the included types a detection run is constructed with: the default, one
\* other scope alone, and both
RunDepTypes == {<<"prod">>, <<"dev">>, <<"prod", "dev">>}

\* the filter without the status test
IsChangedPackageJsonAnyStatus(file) == EndsWith(file.path, PackageJsonName)

\* the filter of getChangedPackageJsonFiles
IsChangedPackageJson(file) ==
    /\ EndsWith(file.path, PackageJsonName)
    /\ (file.status = "modified" \/ file.status = "added")

Init ==
    /\ pc = "start"
    /\ includedDepTypes \in RunDepTypes
    /\ basePackageJson = NoManifest
    /\ headPackageJson = NoManifest
    /\ dependencyChanges = <<>>
    /\ files = <<>>
    /\ packageJsonFiles = <<>>
    /\ workspacePackages = <<>>
    /\ i = 0
    /\ pkg = NoPackage
    /\ changedPackages = <<>>
    /\ result = <<>>
    /\ calls = <<>>
    /\ IdleWriter
    /\ IdleBoundary

analyzerVars == <<includedDepTypes>>

localVars == <<basePackageJson, headPackageJson, dependencyChanges>>

\* the log entries of the two calls that detection awaits outside any try
GetChangedFilesCall(rejected) ==
    [op |-> "getChangedFiles", from |-> FromRef, to |-> ToRef, rejected |-> rejected]

GetPackagesCall(rejected) ==
    [op |-> "getPackages", cwd |-> Cwd, rejected |-> rejected]

\* the same without the early return on an empty list
GetChangedPackageJsonFilesNoEarlyReturn ==
    /\ pc = "start"
    /\ \/ \E fs \in SeqsUpTo(ChangedFile, MaxFiles) :
             /\ calls' = Append(calls, GetChangedFilesCall(FALSE))
             /\ files' = fs
             /\ packageJsonFiles' = SelectSeq(fs, IsChangedPackageJson)
             /\ pc' = "load"
       \/ /\ calls' = Append(calls, GetChangedFilesCall(TRUE))
          /\ pc' = "rejected"
          /\ UNCHANGED <<files, packageJsonFiles>>
    /\ UNCHANGED <<analyzerVars, localVars, workspacePackages, i, pkg,
                   changedPackages, result>>
    /\ UNCHANGED <<writerVars, boundaryVars>>

\* getChangedPackageJsonFiles, then the early return of detectChangedPackages
GetChangedPackageJsonFiles ==
    /\ pc = "start"
    /\ \/ \E fs \in SeqsUpTo(ChangedFile, MaxFiles) :
             /\ calls' = Append(calls, GetChangedFilesCall(FALSE))
             /\ files' = fs
             /\ packageJsonFiles' = SelectSeq(fs, IsChangedPackageJson)
             /\ pc' = IF packageJsonFiles' = <<>> THEN "done" ELSE "load"
       \/ /\ calls' = Append(calls, GetChangedFilesCall(TRUE))
          /\ pc' = "rejected"
          /\ UNCHANGED <<files, packageJsonFiles>>
    /\ UNCHANGED <<analyzerVars, localVars, workspacePackages, i, pkg,
                   changedPackages, result>>
    /\ UNCHANGED <<writerVars, boundaryVars>>

\* the load with a listing failure taken for an empty workspace
LoadWorkspaceSwallowsFailure ==
    /\ pc = "load"
    /\ \/ \E listing \in GetPackagesResults :
             /\ calls' = Append(calls, GetPackagesCall(FALSE))
             /\ workspacePackages' = Load(listing)
       \/ /\ calls' = Append(calls, GetPackagesCall(TRUE))
          /\ workspacePackages' = <<>>
    /\ i' = 1
    /\ pc' = "loop"
    /\ UNCHANGED <<analyzerVars, localVars, files, packageJsonFiles, pkg,
                   changedPackages, result>>
    /\ UNCHANGED <<writerVars, boundaryVars>>

\* WorkspacePackages.load(cwd)
LoadWorkspace ==
    /\ pc = "load"
    /\ \/ \E listing \in GetPackagesResults :
             /\ calls' = Append(calls, GetPackagesCall(FALSE))
             /\ workspacePackages' = Load(listing)
             /\ i' = 1
             /\ pc' = "loop"
       \/ /\ calls' = Append(calls, GetPackagesCall(TRUE))
          /\ pc' = "rejected"
          /\ UNCHANGED <<workspacePackages, i>>
    /\ UNCHANGED <<analyzerVars, localVars, files, packageJsonFiles, pkg,
                   changedPackages, result>>
    /\ UNCHANGED <<writerVars, boundaryVars>>

\* the same with the newest record put in front of the list
NextFileNewestFirst(records) ==
    /\ changedPackages' =
          IF Len(records) > Len(changedPackages)
          THEN <<records[Len(records)]>> \o changedPackages
          ELSE records
    /\ i' = i + 1
    /\ IF i + 1 > Len(packageJsonFiles)
       THEN pc' = "done" /\ result' = changedPackages'
       ELSE pc' = "loop" /\ UNCHANGED result

\* the end of one iteration: the next file, or the return of the list
NextFile(records) ==
    /\ changedPackages' = records
    /\ i' = i + 1
    /\ IF i + 1 > Len(packageJsonFiles)
       THEN pc' = "done" /\ result' = records
       ELSE pc' = "loop" /\ UNCHANGED result

\* a file without a package taken for a fatal error
SkipUnmatchedAborts(look) ==
    /\ calls' = Append(calls, look)
    /\ pc' = "rejected"
    /\ UNCHANGED <<i, changedPackages, result>>

\* if (!pkg) continue
SkipUnmatched(look) ==
    /\ calls' = Append(calls, look)
    /\ NextFile(changedPackages)

\* one iteration up to its first await: resolve the file, skip it, record a
\* private package, or request both contents
ResolveFile ==
    /\ pc = "loop"
    /\ LET file  == packageJsonFiles[i]
           found == findByFilePath(workspacePackages, file.path)
           look  == [op |-> "findByFilePath", path |-> file.path, found |-> found]
       IN  /\ pkg' = found
           /\ basePackageJson' = NoManifest
           /\ headPackageJson' = NoManifest
           /\ dependencyChanges' = <<>>
           /\ IF found = NoPackage
              THEN SkipUnmatched(look)
              ELSE IF IsPrivate(found)
              THEN /\ calls' = Append(calls, look)
                   /\ NextFile(Append(changedPackages,
                                      [private |-> TRUE, package |-> found]))
              ELSE /\ calls' = calls \o
                         <<look,
                           [op |-> "getFileContent", path |-> file.path, ref |-> FromRef],
                           [op |-> "getFileContent", path |-> file.path, ref |-> ToRef]>>
                   /\ pc' = "reading"
                   /\ UNCHANGED <<i, changedPackages, result>>
    /\ UNCHANGED <<analyzerVars, files, packageJsonFiles, workspacePackages>>
    /\ UNCHANGED <<writerVars, boundaryVars>>

\* the body of the try block of analyzeDependencyChanges on the two settled
\* reads: what got parsed, whether it threw, and the changes it returned.
\* Promise.all rejects when either read does, before any parse; JSON.parse
\* of the base throws before the head is parsed
TryAnalyze(baseContent, headContent, included) ==
    LET bothRead == baseContent # ReadRejected /\ headContent # ReadRejected
        baseOk   == bothRead /\ IsManifest(baseContent)
        headOk   == baseOk /\ IsManifest(headContent)
    IN  [basePackageJson |-> IF baseOk THEN baseContent ELSE NoManifest,
         headPackageJson |-> IF headOk THEN headContent ELSE NoManifest,
         threw   |-> ~headOk,
         changes |-> IF headOk
                     THEN comparePackageJsons(baseContent, headContent, included)
                     ELSE <<>>]

\* analyzeDependencyChanges without its catch: the failure propagates
analyzeDependencyChangesNoCatch(baseContent, headContent, included) ==
    LET try == TryAnalyze(baseContent, headContent, included)
    IN  [basePackageJson |-> try.basePackageJson,
         headPackageJson |-> try.headPackageJson,
         rejected |-> try.threw,
         value    |-> try.changes]

\* analyzeDependencyChanges: the catch turns every failure into []
analyzeDependencyChanges(baseContent, headContent, included) ==
    LET try == TryAnalyze(baseContent, headContent, included)
    IN  [basePackageJson |-> try.basePackageJson,
         headPackageJson |-> try.headPackageJson,
         rejected |-> FALSE,
         value    |-> IF try.threw THEN <<>> ELSE try.changes]

\* the await of analyzeDependencyChanges once both reads have settled, and
\* the rest of the iteration
AnalyzeDependencyChanges ==
    /\ pc = "reading"
    /\ \E baseContent \in ReadOutcomes, headContent \in ReadOutcomes :
          LET settled ==
                  analyzeDependencyChanges(baseContent, headContent, includedDepTypes)
          IN  /\ basePackageJson' = settled.basePackageJson
              /\ headPackageJson' = settled.headPackageJson
              /\ dependencyChanges' = settled.value
              /\ IF settled.rejected
                 THEN /\ pc' = "rejected"
                      /\ UNCHANGED <<i, changedPackages, result>>
                 ELSE IF settled.value = <<>>
                 THEN NextFile(changedPackages)
                 ELSE NextFile(Append(changedPackages,
                                      [private |-> FALSE, package |-> pkg,
                                       dependencyChanges |-> settled.value]))
    /\ UNCHANGED <<analyzerVars, files, packageJsonFiles, workspacePackages,
                   pkg, calls>>
    /\ UNCHANGED <<writerVars, boundaryVars>>

Next ==
    \/ GetChangedPackageJsonFiles
    \/ LoadWorkspace
    \/ ResolveFile
    \/ AnalyzeDependencyChanges

Spec == Init /\ [][Next]_vars

----------------------------------------------------------------------------
(* Changeset summaries.  A string is the sequence of its pieces; a line     *)
(* break is the piece "\n".                                                 *)

\* longest change list a summary is rendered for
MaxChanges == 3

Newline == "\n"

RECURSIVE Join(_, _)
\* Array.prototype.join: the strings of a list with sep between them
Join(strings, sep) ==
    IF strings = <<>> THEN <<>>
    ELSE IF Len(strings) = 1 THEN strings[1]
    ELSE strings[1] \o sep \o Join(Tail(strings), sep)

RECURSIVE Split(_, _)
\* String.prototype.split on one separator piece
Split(string, sep) ==
    IF \A k \in DOMAIN string : string[k] # sep THEN <<string>>
    ELSE LET at == CHOOSE k \in DOMAIN string :
                       /\ string[k] = sep
                       /\ \A m \in 1..(k - 1) : string[m] # sep
         IN  <<SubSeq(string, 1, at - 1)>> \o
             Split(SubSeq(string, at + 1, Len(string)), sep)

getNpmPackageUrl(packageName) == <<"https://www.npmjs.com/package/", packageName>>

generateSingleLineSummary(change) ==
    LET link == <<"[", change.name, "](">> \o getNpmPackageUrl(change.name) \o <<")">>
    IN  IF change.type = "updated"
        THEN <<"Updated ">> \o link \o
             <<" (", change.oldVersion, " -> ", change.newVersion, ")">>
        ELSE IF change.type = "added"
        THEN <<"Added ">> \o link \o <<" (", change.newVersion, ")">>
        ELSE <<"Removed ">> \o link \o <<" (", change.oldVersion, ")">>

generateSummaryFromChanges(changes) ==
    IF Len(changes) = 0 THEN <<"Updated dependencies">>
    ELSE IF Len(changes) = 1 THEN generateSingleLineSummary(changes[1])
    ELSE Join(<<<<"Dependencies updated", Newline>>>> \o
              [k \in 1..Len(changes) |->
                  <<"- ">> \o generateSingleLineSummary(changes[k])],
              <<Newline>>)

\* the changes a summary is rendered for: one of each kind for each name
SummaryChanges ==
    UNION {{[name |-> n, type |-> "updated",
             oldVersion |-> "^1.0.0", newVersion |-> "^2.0.0"],
            [name |-> n, type |-> "added", newVersion |-> "^1.0.0"],
            [name |-> n, type |-> "removed", oldVersion |-> "^1.0.0"]} : n \in Names}

InitSummary ==
    /\ pc = "render"
    /\ includedDepTypes = <<>>
    /\ basePackageJson = NoManifest
    /\ headPackageJson = NoManifest
    /\ dependencyChanges \in SeqsUpTo(SummaryChanges, MaxChanges)
    /\ IdleDetect
    /\ IdleWriter
    /\ IdleBoundary

\* generateSummaryFromChanges(changedPackage.dependencyChanges)
RenderSummary ==
    /\ pc = "render"
    /\ pc' = "rendered"
    /\ summary' = generateSummaryFromChanges(dependencyChanges)
    /\ UNCHANGED <<analyzerVars, localVars, detectVars, boundaryVars>>
    /\ UNCHANGED <<publicPackages, releaseType, j, changesetIds, changesets,
                   writes, removed, nextId, history>>

NextSummary == RenderSummary

SpecSummary == InitSummary /\ [][NextSummary]_vars

----------------------------------------------------------------------------
(* Changeset Writer: createChangesets against the .changeset directory of   *)
(* the working directory.  The loop, the summary and the write follow       *)
(* changeset.ts; the banner, the removal of the tool's own earlier          *)
(* changesets and the wasRecreated flag follow section 4.4 of the design.   *)

\* longest record list createChangesets is called with
MaxRecords == 2

\* number of createChangesets runs against the same directory
MaxRuns == 2

ReleaseTypes == {"patch", "minor", "major"}

\* the banner at the top of every summary the tool writes
AutoGeneratedMarker == <<"<!-- auto-generated by deps2changesets -->", Newline>>

\* the summary as written, without the banner
SummaryWithoutMarker(rendered) == rendered

\* the summary as written: the banner, then the rendered summary
SummaryWithMarker(rendered) == AutoGeneratedMarker \o rendered

\* a persisted changeset is the tool's own iff its summary starts with the
\* banner
IsAutoGenerated(changeset) == StartsWith(changeset.summary, AutoGeneratedMarker)

NamesPackage(changeset, name) ==
    \E k \in DOMAIN changeset.releases : changeset.releases[k].name = name

\* every changeset of the tool, whatever package it names
StaleChangesetsOfAnyPackage(existing, name) ==
    {c \in existing : IsAutoGenerated(c)}

\* every changeset naming the package, whoever wrote it
StaleChangesetsOfAnyAuthor(existing, name) ==
    {c \in existing : NamesPackage(c, name)}

\* the earlier changesets of the tool for this package, to be superseded
StaleChangesets(existing, name) ==
    {c \in existing : IsAutoGenerated(c) /\ NamesPackage(c, name)}

\* the flag taken from a second look at the directory, after the removal
WasRecreatedAfterRemoval(existing, stale) == (existing \ stale) \cap stale # {}

\* wasRecreated: an earlier changeset existed and was removed
WasRecreated(existing, stale) == stale # {}

\* one release entry for every record up to this one
ReleasesMerged(records, k, type) ==
    [m \in 1..k |-> [name |-> records[m].package.packageJson.name, type |-> type]]

\* the release list of the changeset written for the k-th record
Releases(records, k, type) ==
    <<[name |-> records[k].package.packageJson.name, type |-> type]>>

\* the result entry put in front of the list
PushResultFirst(ids, entry) == <<entry>> \o ids

\* changesetIds.push
PushResult(ids, entry) == Append(ids, entry)

\* the workspace packages of the records
WriterPackages ==
    [a |-> MkPackage("pkg-a", Cwd \o <<"/", "packages", "/", "pkg-a">>,
                     <<"packages", "/", "pkg-a">>, "public"),
     b |-> MkPackage("pkg-b", Cwd \o <<"/", "packages", "/", "pkg-b">>,
                     <<"packages", "/", "pkg-b">>, "public"),
     c |-> MkPackage("pkg-c", Cwd \o <<"/", "packages", "/", "pkg-c">>,
                     <<"packages", "/", "pkg-c">>, "public")]

UpdatedLodash ==
    [name |-> "lodash", type |-> "updated", oldVersion |-> "^1.0.0", newVersion |-> "^2.0.0"]

AddedAxios == [name |-> "axios", type |-> "added", newVersion |-> "^1.0.0"]

\* the public records a run may be given: a package with one change, the
\* same package with two, a package with none, and a third with one
PublicRecords ==
    {[private |-> FALSE, package |-> WriterPackages.a,
      dependencyChanges |-> <<UpdatedLodash>>],
     [private |-> FALSE, package |-> WriterPackages.a,
      dependencyChanges |-> <<UpdatedLodash, AddedAxios>>],
     [private |-> FALSE, package |-> WriterPackages.b,
      dependencyChanges |-> <<>>],
     [private |-> FALSE, package |-> WriterPackages.c,
      dependencyChanges |-> <<AddedAxios>>]}

\* the detector gives one record per changed manifest, and a manifest belongs
\* to one package: no two records of a list name the same package
RecordLists ==
    {records \in SeqsUpTo(PublicRecords, MaxRecords) :
        \A k, m \in DOMAIN records :
            k # m => records[k].package.packageJson.name
                        # records[m].package.packageJson.name}

\* changesets found in the directory before the first run: two written by
\* hand for pkg-a (one quoting the banner below its first line), and one the
\* tool wrote for pkg-a in an earlier process
HandAuthored ==
    {[id |-> 0, summary |-> <<"Bump lodash">>,
      releases |-> <<[name |-> "pkg-a", type |-> "patch"]>>],
     [id |-> -1, summary |-> <<"Replaces:", Newline>> \o AutoGeneratedMarker,
      releases |-> <<[name |-> "pkg-a", type |-> "minor"]>>]}

EarlierAutoGenerated ==
    {[id |-> -2,
      summary |-> SummaryWithMarker(generateSummaryFromChanges(<<UpdatedLodash>>)),
      releases |-> <<[name |-> "pkg-a", type |-> "patch"]>>]}

InitialChangesets == {HandAuthored, HandAuthored \cup EarlierAutoGenerated}

InitWrite ==
    /\ pc = "ready"
    /\ includedDepTypes = <<>>
    /\ basePackageJson = NoManifest
    /\ headPackageJson = NoManifest
    /\ dependencyChanges = <<>>
    /\ IdleDetect
    /\ summary = <<>>
    /\ publicPackages = <<>>
    /\ releaseType \in ReleaseTypes
    /\ j = 0
    /\ changesetIds = <<>>
    /\ changesets \in InitialChangesets
    /\ writes = <<>>
    /\ removed = {}
    /\ nextId = 1
    /\ history = <<>>
    /\ IdleBoundary

\* the run that is under way or has just ended, as history keeps it
ThisRun(outcome, ids) ==
    [publicPackages |-> publicPackages, before |-> history[Len(history)].before,
     writes |-> writes', removed |-> removed', result |-> ids, outcome |-> outcome]

\* the call of createChangesets, up to its first write; a run that rejected
\* ends the process, and the runs followed here are those after a return
EnterCreateChangesets(records) ==
    /\ publicPackages' = records
    /\ changesetIds' = <<>>
    /\ writes' = <<>>
    /\ removed' = {}
    /\ history' = Append(history,
           [publicPackages |-> records, before |-> changesets,
            writes |-> <<>>, removed |-> {}, result |-> <<>>,
            outcome |-> IF records = <<>> THEN "returned" ELSE "running"])
    /\ IF Len(records) = 0
       THEN pc' = "returned" /\ j' = 0
       ELSE pc' = "writing" /\ j' = 1

CreateChangesets ==
    /\ pc \in {"ready", "returned"}
    /\ Len(history) < MaxRuns
    /\ \E records \in RecordLists : EnterCreateChangesets(records)
    /\ UNCHANGED <<summary, releaseType, changesets, nextId>>
    /\ UNCHANGED <<analyzerVars, localVars, detectVars, boundaryVars>>

\* a write that failed, taken for a record to skip
WriteRejectedSkipped(call) ==
    /\ writes' = Append(writes, call @@ [settled |-> [rejected |-> TRUE]])
    /\ j' = j + 1
    /\ pc' = IF j = Len(publicPackages) THEN "returned" ELSE "writing"
    /\ history' = [history EXCEPT ![Len(history)] =
                      ThisRun(IF j = Len(publicPackages) THEN "returned" ELSE "running",
                              changesetIds)]
    /\ UNCHANGED <<changesetIds, nextId>>

\* writeChangeset rejected: nothing catches it, createChangesets rejects
WriteRejected(call) ==
    /\ writes' = Append(writes, call @@ [settled |-> [rejected |-> TRUE]])
    /\ pc' = "rejected"
    /\ history' = [history EXCEPT ![Len(history)] = ThisRun("rejected", <<>>)]
    /\ UNCHANGED <<j, changesetIds, nextId>>

\* one iteration of the loop: render, remove the stale changesets of the
\* package, write the new one, push its result.  writes logs the arguments
\* of each writeChangeset call and what it settled with
WriteChangeset ==
    /\ pc = "writing"
    /\ LET changedPackage == publicPackages[j]
           name  == changedPackage.package.packageJson.name
           stale == StaleChangesets(changesets, name)
           call  == [summary  |-> SummaryWithMarker(
                                     generateSummaryFromChanges(
                                         changedPackage.dependencyChanges)),
                     releases |-> Releases(publicPackages, j, releaseType),
                     cwd |-> Cwd]
       IN  /\ summary' = call.summary
           /\ removed' = removed \cup stale
           /\ \/ /\ changesets' = (changesets \ stale) \cup
                        {[id |-> nextId, summary |-> call.summary,
                          releases |-> call.releases]}
                 /\ nextId' = nextId + 1
                 /\ writes' = Append(writes,
                        call @@ [settled |-> [rejected |-> FALSE, id |-> nextId]])
                 /\ changesetIds' =
                        PushResult(changesetIds,
                                   [id |-> nextId,
                                    wasRecreated |-> WasRecreated(changesets, stale)])
                 /\ j' = j + 1
                 /\ pc' = IF j = Len(publicPackages) THEN "returned" ELSE "writing"
                 /\ history' = [history EXCEPT ![Len(history)] =
                        ThisRun(IF j = Len(publicPackages) THEN "returned" ELSE "running",
                                changesetIds')]
              \/ /\ changesets' = changesets \ stale
                 /\ WriteRejected(call)
    /\ UNCHANGED <<publicPackages, releaseType>>
    /\ UNCHANGED <<analyzerVars, localVars, detectVars, boundaryVars>>

NextWrite ==
    \/ CreateChangesets
    \/ WriteChangeset

SpecWrite == InitWrite /\ [][NextWrite]_vars

----------------------------------------------------------------------------
(* Claims about the differ, checked under SpecDiff *)

Diffed == pc = "diffed"

Occurrences(s, c) == Cardinality({k \in DOMAIN s : s[k] = c})

SameBag(s, t) ==
    \A c \in Range(s) \cup Range(t) : Occurrences(s, c) = Occurrences(t, c)

\* the change the claim assigns to one name in one block, by key presence
PresenceChange(base, head, depType, name) ==
    LET baseDeps == DepsOf(base, depType)
        headDeps == DepsOf(head, depType)
    IN  IF name \in DOMAIN baseDeps /\ name \in DOMAIN headDeps
        THEN IF baseDeps[name] # headDeps[name]
             THEN <<[name |-> name, type |-> "updated",
                     oldVersion |-> baseDeps[name], newVersion |-> headDeps[name]]>>
             ELSE <<>>
        ELSE IF name \in DOMAIN headDeps
        THEN <<[name |-> name, type |-> "added", newVersion |-> headDeps[name]]>>
        ELSE IF name \in DOMAIN baseDeps
        THEN <<[name |-> name, type |-> "removed", oldVersion |-> baseDeps[name]]>>
        ELSE <<>>

\* the blocks of the scopes a list selects
SelectedBlocks(included) == {DEP_TYPE_MAP[t] : t \in Range(included)}

PresenceChanges(base, head, included) ==
    LET PerKey(depType) ==
            LET PerName(name) == PresenceChange(base, head, depType, name)
            IN  FlatMap(PerName, NameOrder)
    IN  FlatMap(PerKey, SelectSeq(<<"dependencies", "devDependencies",
                                    "peerDependencies", "optionalDependencies">>,
                                  LAMBDA k : k \in SelectedBlocks(included)))

\* the blocks of the selected scopes in which a name differs between the manifests
DifferingKeys(base, head, included, name) ==
    {depType \in SelectedBlocks(included) :
        Lookup(DepsOf(base, depType), name) # Lookup(DepsOf(head, depType), name)}

\* C1: for every selected scope and name the differ emits exactly the change
\* that key presence dictates (updated / added / removed / nothing), version
\* strings ranging over all strings, the empty string included.
C1_ChangesFollowPresence ==
    Diffed => SameBag(dependencyChanges,
                      PresenceChanges(basePackageJson, headPackageJson,
                                      includedDepTypes))

\* C2: a dependency whose version string is the same in base and head emits
\* no change for that scope: per name there are at most as many changes as
\* selected blocks in which it differs, and none at all when no selected
\* block differs.
C2_UnchangedEmitsNothing ==
    Diffed =>
        /\ \A n \in Names :
              Cardinality({k \in DOMAIN dependencyChanges :
                              dependencyChanges[k].name = n})
                 <= Cardinality(DifferingKeys(basePackageJson, headPackageJson,
                                              includedDepTypes, n))
        /\ (\A n \in Names : DifferingKeys(basePackageJson, headPackageJson,
                                           includedDepTypes, n) = {})
              => dependencyChanges = <<>>

\* an unchanged, selected dependency in manifests whose version field differs
C2_Witness ==
    /\ Diffed
    /\ basePackageJson["version"] # headPackageJson["version"]
    /\ \E t \in Range(includedDepTypes), n \in Names :
          /\ n \in DOMAIN DepsOf(basePackageJson, DEP_TYPE_MAP[t])
          /\ n \in DOMAIN DepsOf(headPackageJson, DEP_TYPE_MAP[t])
          /\ DepsOf(basePackageJson, DEP_TYPE_MAP[t])[n]
                = DepsOf(headPackageJson, DEP_TYPE_MAP[t])[n]
          /\ DepsOf(basePackageJson, DEP_TYPE_MAP[t])[n] # ""
    /\ dependencyChanges = <<>>

\* C3: every emitted change has the fields of its kind: added has newVersion
\* only, removed has oldVersion only, updated has both and they differ.
C3_KindVersionInvariant ==
    Diffed =>
        \A c \in Range(dependencyChanges) :
            /\ c.type \in {"added", "removed", "updated"}
            /\ c.type = "added" =>
                  /\ DOMAIN c = {"name", "type", "newVersion"}
                  /\ c.newVersion \in Versions
            /\ c.type = "removed" =>
                  /\ DOMAIN c = {"name", "type", "oldVersion"}
                  /\ c.oldVersion \in Versions
            /\ c.type = "updated" =>
                  /\ DOMAIN c = {"name", "type", "oldVersion", "newVersion"}
                  /\ c.oldVersion \in Versions
                  /\ c.newVersion \in Versions
                  /\ c.oldVersion # c.newVersion

\* a removal caused by an empty new version string, next to another change
C3_Witness ==
    /\ Diffed
    /\ \E c \in Range(dependencyChanges), depType \in DepKeys :
          /\ c.type = "removed"
          /\ Lookup(DepsOf(headPackageJson, depType), c.name) = ""
    /\ \E c \in Range(dependencyChanges) : c.type # "updated"

\* a change with base and head swapped
Mirror(c) ==
    IF c.type = "added"
    THEN [name |-> c.name, type |-> "removed", oldVersion |-> c.newVersion]
    ELSE IF c.type = "removed"
    THEN [name |-> c.name, type |-> "added", newVersion |-> c.oldVersion]
    ELSE [name |-> c.name, type |-> "updated",
          oldVersion |-> c.newVersion, newVersion |-> c.oldVersion]

\* C4: diffing is symmetric: the changes of diff(head, base) are the mirrored
\* changes of diff(base, head).
C4_DiffSymmetric ==
    Diffed =>
        Range(comparePackageJsons(headPackageJson, basePackageJson,
                                  includedDepTypes))
           = {Mirror(c) : c \in Range(dependencyChanges)}

\* a diff holding an addition and a removal
C4_Witness ==
    /\ Diffed
    /\ \E c \in Range(dependencyChanges) : c.type = "added"
    /\ \E c \in Range(dependencyChanges) : c.type = "removed"

\* C6: scope selection is a union with production: whenever the caller names
\* scopes, the changes of the production block are still reported.
C6_ProductionAlwaysSelected ==
    (Diffed /\ includedDepTypes # <<>>) =>
        Range(comparePackageJsons(basePackageJson, headPackageJson, <<"prod">>))
           \subseteq Range(dependencyChanges)

----------------------------------------------------------------------------
(* Claims about the detector, checked under Spec *)

Done == pc = "done"

BothParsed(base, head) == IsManifest(base) /\ IsManifest(head)

\* a name differs between the two manifests in some selected block
DiffersInSelected(base, head, included, name) ==
    DifferingKeys(base, head, included, name) # {}

\* C5: the differ inspects only the blocks of the selected scopes: every
\* change an analysis yields is for a name that differs in a selected block,
\* and when no selected block differs the file adds no record.
C5_OnlySelectedScopes ==
    [][pc = "reading" =>
          (BothParsed(basePackageJson', headPackageJson') =>
              /\ \A c \in Range(dependencyChanges') :
                    DiffersInSelected(basePackageJson', headPackageJson',
                                      includedDepTypes, c.name)
              /\ (\A n \in Names :
                     ~DiffersInSelected(basePackageJson', headPackageJson',
                                        includedDepTypes, n))
                    => /\ dependencyChanges' = <<>>
                       /\ changedPackages' = changedPackages)]_vars

\* devDependencies changed, only production selected: no change, no record
C5_Witness ==
    /\ Done
    /\ includedDepTypes = <<"prod">>
    /\ BothParsed(basePackageJson, headPackageJson)
    /\ DepsOf(basePackageJson, "devDependencies")
          # DepsOf(headPackageJson, "devDependencies")
    /\ dependencyChanges = <<>>
    /\ packageJsonFiles # <<>>
    /\ result = <<>>

\* the manifest of a workspace package carries private: true
FlaggedPrivate(p) ==
    /\ "private" \in DOMAIN p.packageJson
    /\ p.packageJson["private"] = TRUE

\* C7: a package flagged private never appears as a public record, only as
\* a private record without dependency changes.
C7_PrivateNeverPublic ==
    \A r \in Range(changedPackages) \cup Range(result) :
        FlaggedPrivate(r.package) =>
            /\ r.private = TRUE
            /\ DOMAIN r = {"private", "package"}

\* a run that returned a private record next to a public one
C7_Witness ==
    /\ Done
    /\ \E r \in Range(result) : r.private /\ FlaggedPrivate(r.package)
    /\ \E r \in Range(result) : ~r.private /\ r.dependencyChanges # <<>>

\* the file qualifies: its path ends with package.json, its status is
\* modified or added
Qualifies(file) ==
    /\ file.path # <<>>
    /\ file.path[Len(file.path)] = "package.json"
    /\ file.status \in {"modified", "added"}

LookupCalls == SelectSeq(calls, LAMBDA c : c.op = "findByFilePath")

FetchCalls == SelectSeq(calls, LAMBDA c : c.op = "getFileContent")

\* C8: only files ending with package.json whose status is modified or added
\* are considered: every lookup and every fetch is for such a file, and there
\* are no more lookups, and no more records, than such files.
C8_OnlyQualifyingFilesConsidered ==
    /\ \A c \in Range(LookupCalls) \cup Range(FetchCalls) :
          \E f \in Range(files) : f.path = c.path /\ Qualifies(f)
    /\ Len(LookupCalls) <= Len(SelectSeq(files, Qualifies))
    /\ Len(changedPackages) <= Len(LookupCalls)
    /\ Done => Len(LookupCalls) = Len(SelectSeq(files, Qualifies))

\* a removed manifest next to a modified one: one lookup, one record
C8_Witness ==
    /\ Done
    /\ \E f \in Range(files) : f.status = "removed" /\ f.path = <<"package.json">>
    /\ \E f \in Range(files) : Qualifies(f)
    /\ Len(LookupCalls) = 1
    /\ Len(result) = 1

\* C9: with no qualifying package.json file in the changed-file list the
\* detector returns the empty list and never asks for the workspace packages.
C9_NoManifestNoWorkspaceLoad ==
    (\A f \in Range(files) : ~Qualifies(f)) =>
        /\ \A c \in Range(calls) : c.op # "getPackages"
        /\ workspacePackages = <<>>
        /\ pc \in {"start", "done", "rejected"}
        /\ Done => result = <<>>

\* a run over changed files none of which qualifies
C9_Witness ==
    /\ Done
    /\ Len(files) = MaxFiles
    /\ \A f \in Range(files) : ~Qualifies(f)
    /\ result = <<>>
    /\ Len(calls) = 1

\* the changed path as an absolute path below the working directory, and the
\* manifest path of a package directory, by plain concatenation (no changed
\* path or package directory of the model has "." or ".." segments)
AbsoluteOf(filePath) == Cwd \o <<"/">> \o filePath

ManifestPathOf(dir) == dir \o <<"/", "package.json">>

\* C10: findByFilePath returns a package iff its directory joined with
\* package.json is exactly the resolved changed path; a manifest in a nested
\* directory of a package, or outside every package, resolves to no package.
C10_ExactPathMatch ==
    \A c \in Range(LookupCalls) :
        /\ c.found # NoPackage =>
              /\ c.found \in Range(workspacePackages)
              /\ ManifestPathOf(c.found.dir) = AbsoluteOf(c.path)
        /\ c.found = NoPackage =>
              \A p \in Range(workspacePackages) :
                  ManifestPathOf(p.dir) # AbsoluteOf(c.path)
        /\ c.path \in {<<"packages", "/", "a", "/", "nested", "/", "package.json">>,
                       <<"packages", "/", "a", "/", "my-", "package.json">>}
              => c.found = NoPackage

\* a nested manifest resolving to nothing in a workspace with a root package
\* and a package above it, while the root manifest resolves to the root
C10_Witness ==
    /\ Done
    /\ Len(workspacePackages) = 2
    /\ \E c \in Range(LookupCalls) :
          /\ c.path = <<"packages", "/", "a", "/", "nested", "/", "package.json">>
          /\ c.found = NoPackage
    /\ \E c \in Range(LookupCalls) :
          /\ c.path = <<"package.json">>
          /\ c.found # NoPackage
          /\ c.found.dir = Cwd

\* C11: a failure to fetch either content or to parse either manifest is
\* caught and counts as zero changes for that file only: the await of the
\* analysis always resolves, the loop moves on to the next file (or returns
\* the list), a failed file adds no record and leaves the records of the
\* files before it as they were, and a file that parsed adds at most the one
\* record made from its own package and its own two manifests.
C11_PerFileFailureIsLocal ==
    [][pc = "reading" =>
          /\ pc' \in {"loop", "done"}
          /\ i' = i + 1
          /\ ~BothParsed(basePackageJson', headPackageJson') =>
                changedPackages' = changedPackages
          /\ BothParsed(basePackageJson', headPackageJson') =>
                changedPackages' \in
                    {changedPackages,
                     Append(changedPackages,
                            [private |-> FALSE, package |-> pkg,
                             dependencyChanges |->
                                 comparePackageJsons(basePackageJson',
                                                     headPackageJson',
                                                     includedDepTypes)])}
          /\ pc' = "done" => result' = changedPackages']_vars

\* a run that ended on a file whose analysis failed, after an earlier file
\* had given a public record: the list returned holds that record alone
C11_Witness ==
    /\ Done
    /\ calls[Len(calls)].op = "getFileContent"
    /\ ~BothParsed(basePackageJson, headPackageJson)
    /\ Len(FetchCalls) = 4
    /\ Len(result) = 1
    /\ ~result[1].private

\* the changed-file queries and workspace listings that rejected
FailedCalls ==
    {k \in DOMAIN calls :
        /\ calls[k].op \in {"getChangedFiles", "getPackages"}
        /\ calls[k].rejected}

\* C20: a failure of getChangedFiles or of the workspace listing aborts the
\* detection at once: the run is rejected, no record list (not even a
\* partial one) is returned, and the failed call is the last call of the
\* run, so no getFileContent follows it.
C20_FatalFailureAborts ==
    \A k \in FailedCalls :
        /\ pc = "rejected"
        /\ result = <<>>
        /\ changedPackages = <<>>
        /\ k = Len(calls)
        /\ FetchCalls = <<>>

\* the workspace listing rejecting after the filter kept a manifest
C20_Witness ==
    /\ pc = "rejected"
    /\ packageJsonFiles # <<>>
    /\ calls[Len(calls)] = GetPackagesCall(TRUE)

----------------------------------------------------------------------------
(* Claims about the summary, checked under SpecSummary *)

Rendered == pc = "rendered"

\* the lines of a summary that are not empty
NonEmptyLines(string) == SelectSeq(Split(string, Newline), LAMBDA l : l # <<>>)

KindRank(type) == IF type = "updated" THEN 1 ELSE IF type = "added" THEN 2 ELSE 3

\* the bullet of the change a line was rendered from
IsBulletOf(line, change) == line = <<"- ">> \o generateSingleLineSummary(change)

\* C14: the summary has the shape the number of changes dictates: none, the
\* generic fallback text; one, a single descriptive line and no heading; two
\* or more, a heading line and then one bullet per change, every 'updated'
\* bullet before every 'added' one and every 'added' before every 'removed',
\* whatever the order of the change list.
C14_SummaryShape ==
    Rendered =>
        LET changes == dependencyChanges
            lines   == NonEmptyLines(summary)
            bullets == Tail(lines)
        IN  /\ Len(changes) = 0 => summary = <<"Updated dependencies">>
            /\ Len(changes) = 1 =>
                  /\ Newline \notin Range(summary)
                  /\ summary = generateSingleLineSummary(changes[1])
            /\ Len(changes) >= 2 =>
                  /\ lines[1] = <<"Dependencies updated">>
                  /\ Len(bullets) = Len(changes)
                  /\ \E order \in [1..Len(changes) -> 1..Len(changes)] :
                        /\ \A k, m \in 1..Len(changes) : k # m => order[k] # order[m]
                        /\ \A k \in 1..Len(changes) :
                              IsBulletOf(bullets[k], changes[order[k]])
                        /\ \A k, m \in 1..Len(changes) :
                              k < m => KindRank(changes[order[k]].type)
                                          <= KindRank(changes[order[m]].type)

----------------------------------------------------------------------------
(* Claims about the writer, checked under SpecWrite *)

Returned == pc = "returned"

NameOf(changedPackage) == changedPackage.package.packageJson.name

\* C12: createChangesets issues exactly one write per record, never merged:
\* a run that returned made as many writeChangeset calls as it had records,
\* and the k-th call carries a release list of exactly one entry, the name
\* of the k-th record's package with the given release type.
C12_OneWritePerRecord ==
    /\ pc = "writing" => Len(writes) = j - 1
    /\ Returned => Len(writes) = Len(publicPackages)
    /\ \A k \in DOMAIN writes :
          writes[k].releases =
              <<[name |-> NameOf(publicPackages[k]), type |-> releaseType]>>

\* two records, two writes
C12_Witness ==
    /\ Returned
    /\ Len(publicPackages) = 2
    /\ Len(writes) = 2
    /\ writes[1].releases # writes[2].releases

HasBanner(string) ==
    /\ Len(string) >= Len(AutoGeneratedMarker)
    /\ \A k \in DOMAIN AutoGeneratedMarker : string[k] = AutoGeneratedMarker[k]

\* every writeChangeset call made so far, in this run and in the runs before
AllWrites ==
    Range(writes) \cup UNION {Range(history[k].writes) : k \in DOMAIN history}

AutoGeneratedFor(existing, name) ==
    {c \in existing : HasBanner(c.summary) /\ NamesPackage(c, name)}

PackageNames == {WriterPackages[p].packageJson.name : p \in DOMAIN WriterPackages}

C17_HandAuthoredSurvive ==
    [][\A c \in changesets : ~HasBanner(c.summary) => c \in changesets']_vars

\* a run with release type patch wrote the changeset of pkg-a and removed
\* the tool's earlier one, and the changesets written by hand for pkg-a (one
\* of them of type patch) are all still there
C17_Witness ==
    /\ Returned
    /\ releaseType = "patch"
    /\ removed # {}
    /\ \E w \in Range(writes) : w.releases = <<[name |-> "pkg-a", type |-> "patch"]>>
    /\ HandAuthored \subseteq changesets
    /\ \E c \in HandAuthored : c.releases = <<[name |-> "pkg-a", type |-> "patch"]>>

SummariesOf(run) == [k \in DOMAIN run.writes |-> run.writes[k].summary]

Persisted(w) ==
    [id |-> w.settled.id, summary |-> w.summary, releases |-> w.releases]

\* C19: when the write for the k-th record fails, createChangesets rejects
\* with it: the changesets written for the records before k stay persisted
\* (nothing is rolled back), the failed write is the last one attempted, and
\* no result list is returned.
C19_WriteFailureAborts ==
    \A k \in DOMAIN writes :
        writes[k].settled.rejected =>
            /\ pc = "rejected"
            /\ k = Len(writes)
            /\ k = j
            /\ \A m \in 1..(k - 1) :
                  /\ ~writes[m].settled.rejected
                  /\ Persisted(writes[m]) \in changesets
            /\ history[Len(history)].outcome = "rejected"
            /\ history[Len(history)].result = <<>>

\* the second of two writes failed: the first changeset is persisted
C19_Witness ==
    /\ pc = "rejected"
    /\ Len(publicPackages) = 2
    /\ Len(writes) = 2
    /\ writes[2].settled.rejected
    /\ Persisted(writes[1]) \in changesets

----------------------------------------------------------------------------
(* Further claims about the differ, checked under SpecDiff *)

\* a name that left one selected block and entered another
MovedBetween(name, fromBlock, toBlock) ==
    /\ fromBlock # toBlock
    /\ name \in DOMAIN DepsOf(basePackageJson, fromBlock)
    /\ name \notin DOMAIN DepsOf(headPackageJson, fromBlock)
    /\ name \notin DOMAIN DepsOf(basePackageJson, toBlock)
    /\ name \in DOMAIN DepsOf(headPackageJson, toBlock)

\* C23: a name that moves between two selected scopes (in base but not head
\* of one block, in head but not base of another) is reported as two
\* independent changes, a 'removed' with the old version for the first
\* block and an 'added' with the new version for the second, and never as
\* an 'updated' (no 'updated' for the name unless some selected block holds
\* it on both sides).
C23_ScopeMoveIsTwoChanges ==
    Diffed =>
        \A name \in Names :
            \A fromBlock, toBlock \in SelectedBlocks(includedDepTypes) :
                MovedBetween(name, fromBlock, toBlock) =>
                    /\ [name |-> name, type |-> "removed",
                        oldVersion |-> DepsOf(basePackageJson, fromBlock)[name]]
                           \in Range(dependencyChanges)
                    /\ [name |-> name, type |-> "added",
                        newVersion |-> DepsOf(headPackageJson, toBlock)[name]]
                           \in Range(dependencyChanges)
                    /\ \A c \in Range(dependencyChanges) :
                          (c.name = name /\ c.type = "updated") =>
                              \E b \in SelectedBlocks(includedDepTypes) :
                                  /\ name \in DOMAIN DepsOf(basePackageJson, b)
                                  /\ name \in DOMAIN DepsOf(headPackageJson, b)

RECURSIVE FirstOccurrences(_)
\* a list with its repeated entries removed, first occurrences kept
FirstOccurrences(list) ==
    IF list = <<>> THEN <<>>
    ELSE <<Head(list)>> \o
         FirstOccurrences(SelectSeq(Tail(list), LAMBDA x : x # Head(list)))

RECURSIVE ChangesScopeByScope(_)
\* the changes of each scope of a list in turn, one scope after the other
ChangesScopeByScope(scopes) ==
    IF scopes = <<>> THEN <<>>
    ELSE CompareDepType(basePackageJson, headPackageJson, DEP_TYPE_MAP[Head(scopes)])
         \o ChangesScopeByScope(Tail(scopes))

\* C30: listing a scope more than once in the included types does not
\* duplicate output: the change list is the one of the list with repeated
\* entries removed, and it holds the changes of the scopes in the order of
\* their first occurrence.
C30_RepeatedScopesCountOnce ==
    Diffed =>
        /\ dependencyChanges =
              comparePackageJsons(basePackageJson, headPackageJson,
                                  FirstOccurrences(includedDepTypes))
        /\ dependencyChanges = ChangesScopeByScope(FirstOccurrences(includedDepTypes))

\* a scope listed twice whose block holds a change, reported once
C30_Witness ==
    /\ Diffed
    /\ Len(includedDepTypes) = 2
    /\ includedDepTypes[1] = includedDepTypes[2]
    /\ Len(dependencyChanges) = 1

----------------------------------------------------------------------------
(* Further claims about the detector, checked under Spec *)

PrivateRecords(records) == SelectSeq(records, LAMBDA r : r.private)

\* C24: a changed manifest that resolves to a private package gives the
\* private record without any diffing: no getFileContent call is ever made
\* for its path, at either ref, so the record does not depend on what the
\* manifest holds; there is one private record per such lookup.
C24_PrivateShortCircuits ==
    /\ \A c \in Range(LookupCalls) :
          (c.found # NoPackage /\ FlaggedPrivate(c.found)) =>
              /\ \A f \in Range(FetchCalls) : f.path # c.path
              /\ [private |-> TRUE, package |-> c.found] \in Range(changedPackages)
    /\ Len(PrivateRecords(changedPackages)) =
          Len(SelectSeq(LookupCalls,
                        LAMBDA c : c.found # NoPackage /\ FlaggedPrivate(c.found)))

\* a run over the manifests of a private and of a public package: contents
\* were fetched for the public one only
C24_Witness ==
    /\ Done
    /\ Len(LookupCalls) = 2
    /\ Len(PrivateRecords(result)) = 1
    /\ Len(FetchCalls) = 2
    /\ \A f \in Range(FetchCalls) :
          \A r \in Range(PrivateRecords(result)) :
              ManifestPathOf(r.package.dir) # AbsoluteOf(f.path)

\* the record was made for the package of the file
RecordOfFile(record, file) ==
    ManifestPathOf(record.package.dir) = AbsoluteOf(file.path)

\* C26: the detection result holds at most one record per qualifying changed
\* manifest, in the order of the changed-file list, and every public record
\* has a non-empty list of dependency changes.
C26_RecordsFollowFiles ==
    /\ \E at \in [1..Len(changedPackages) -> 1..Len(packageJsonFiles)] :
          /\ \A k, m \in 1..Len(changedPackages) : k < m => at[k] < at[m]
          /\ \A k \in 1..Len(changedPackages) :
                /\ RecordOfFile(changedPackages[k], packageJsonFiles[at[k]])
                /\ Qualifies(packageJsonFiles[at[k]])
    /\ \A r \in Range(changedPackages) :
          ~r.private => r.dependencyChanges # <<>>
    /\ Done => result = changedPackages

\* two records of two packages, in the order of their files, after a run in
\* which a file of the list gave no record
C26_Witness ==
    /\ Done
    /\ Len(result) = 2
    /\ result[1].package # result[2].package
    /\ RecordOfFile(result[1], packageJsonFiles[1])
    /\ RecordOfFile(result[2], packageJsonFiles[2])
    /\ ~result[2].private

\* no workspace package has its manifest at the path
Unmatched(filePath) ==
    \A p \in Range(workspacePackages) : ManifestPathOf(p.dir) # AbsoluteOf(filePath)

\* C27: a qualifying changed manifest that resolves to no workspace package
\* is skipped without error: the step adds no record, requests no content,
\* and goes on to the next file of the list (or returns the list).
C27_UnmatchedIsSkipped ==
    [][(pc = "loop" /\ Unmatched(packageJsonFiles[i].path)) =>
          /\ changedPackages' = changedPackages
          /\ SelectSeq(calls', LAMBDA c : c.op = "getFileContent") = FetchCalls
          /\ i' = i + 1
          /\ pc' \in {"loop", "done"}
          /\ pc' = "done" => result' = changedPackages]_vars

\* a run whose first file had no package and whose second gave a record
C27_Witness ==
    /\ Done
    /\ Len(packageJsonFiles) = 2
    /\ Unmatched(packageJsonFiles[1].path)
    /\ Len(result) = 1
    /\ RecordOfFile(result[1], packageJsonFiles[2])

----------------------------------------------------------------------------
(* analyzeDependencyChanges read by read: the two getFileContent promises   *)
(* of one file settle in either order, and Promise.all resumes the method   *)
(* once both are fulfilled or one is rejected.                              *)

\* the manifest whose changes are analysed
AnalysedPath == <<"packages", "/", "a", "/", "package.json">>

\* a promise that has not settled holds no value
Pending == [pending |-> TRUE]

InitRead ==
    /\ pc = "analyze"
    /\ includedDepTypes \in RunDepTypes
    /\ basePackageJson = NoManifest
    /\ headPackageJson = NoManifest
    /\ dependencyChanges = <<>>
    /\ IdleDetect
    /\ IdleWriter
    /\ repository \in [{FromRef, ToRef} -> ReadOutcomes]
    /\ promises = <<>>
    /\ completed = <<>>
    /\ IdleCli
    /\ diffSummary = <<>>

\* the argument of Promise.all: both calls are made, base first, before the
\* await
RequestContents ==
    /\ pc = "analyze"
    /\ pc' = "awaiting"
    /\ calls' = calls \o
          <<[op |-> "getFileContent", path |-> AnalysedPath, ref |-> FromRef],
            [op |-> "getFileContent", path |-> AnalysedPath, ref |-> ToRef]>>
    /\ promises' = <<[ref |-> FromRef, state |-> "pending", value |-> Pending],
                     [ref |-> ToRef, state |-> "pending", value |-> Pending]>>
    /\ UNCHANGED <<analyzerVars, localVars, files, packageJsonFiles,
                   workspacePackages, i, pkg, changedPackages, result>>
    /\ UNCHANGED <<writerVars, repository, completed, cliVars, diffSummary>>

\* one of the two reads settles with what the repository holds at its ref
SettleRead ==
    /\ pc = "awaiting"
    /\ \E k \in DOMAIN promises :
          /\ promises[k].state = "pending"
          /\ promises' =
                [promises EXCEPT ![k] =
                    [ref   |-> @.ref,
                     state |-> IF repository[@.ref] = ReadRejected
                               THEN "rejected" ELSE "fulfilled",
                     value |-> repository[@.ref]]]
          /\ completed' = Append(completed, k)
    /\ UNCHANGED <<pc, analyzerVars, localVars, detectVars>>
    /\ UNCHANGED <<writerVars, repository, cliVars, diffSummary>>

\* Promise.all has settled: every promise fulfilled, or one rejected
PromiseAllSettled(ps) ==
    \/ \E k \in DOMAIN ps : ps[k].state = "rejected"
    \/ \A k \in DOMAIN ps : ps[k].state = "fulfilled"

\* the values in the order in which the promises settled
PromiseAllValuesAsSettled(ps, order) ==
    IF Len(order) = Len(ps)
    THEN [k \in DOMAIN ps |-> ps[order[k]].value]
    ELSE [k \in DOMAIN ps |-> ps[k].value]

\* what Promise.all resolves with: the values by position in its argument
PromiseAllValues(ps, order) == [k \in DOMAIN ps |-> ps[k].value]

\* const [baseContent, headContent] = await Promise.all(...), and the rest
\* of the method
ResumeAnalysis ==
    /\ pc = "awaiting"
    /\ PromiseAllSettled(promises)
    /\ pc' = "analysed"
    /\ LET values  == PromiseAllValues(promises, completed)
           failed  == \E k \in DOMAIN promises : promises[k].state = "rejected"
           settled == analyzeDependencyChanges(
                          IF failed THEN ReadRejected ELSE values[1],
                          IF failed THEN ReadRejected ELSE values[2],
                          includedDepTypes)
       IN  /\ basePackageJson' = settled.basePackageJson
           /\ headPackageJson' = settled.headPackageJson
           /\ dependencyChanges' = settled.value
    /\ UNCHANGED <<analyzerVars, detectVars>>
    /\ UNCHANGED <<writerVars, boundaryVars>>

NextRead ==
    \/ RequestContents
    \/ SettleRead
    \/ ResumeAnalysis

SpecRead == InitRead /\ [][NextRead]_vars

----------------------------------------------------------------------------
(* Claims about the two reads, checked under SpecRead *)

Analysed == pc = "analysed"

\* C25: both reads of a file are requested, base first, before either has
\* settled; whatever the order in which they settle, the changes returned are
\* those between the content at fromRef (as base) and the content at toRef
\* (as head), and they are the empty list when either read rejects.
C25_ReadsAreOrderInsensitive ==
    /\ (promises # <<>> \/ completed # <<>>) =>
          /\ Len(FetchCalls) = 2
          /\ FetchCalls[1].ref = FromRef
          /\ FetchCalls[2].ref = ToRef
    /\ Analysed =>
          /\ dependencyChanges =
                analyzeDependencyChanges(repository[FromRef], repository[ToRef],
                                         includedDepTypes).value
          /\ (repository[FromRef] = ReadRejected \/ repository[ToRef] = ReadRejected)
                => dependencyChanges = <<>>
          /\ BothParsed(repository[FromRef], repository[ToRef]) =>
                /\ basePackageJson = repository[FromRef]
                /\ headPackageJson = repository[ToRef]

\* the head read settled before the base read, and changes were found
C25_Witness ==
    /\ Analysed
    /\ completed = <<2, 1>>
    /\ dependencyChanges # <<>>
    /\ basePackageJson = repository[FromRef]
    /\ headPackageJson = repository[ToRef]

----------------------------------------------------------------------------
(* parseGitRange.  A range is the sequence of its characters.               *)

DotDot == <<".", ".">>

HeadRef == <<"H", "E", "A", "D">>

\* the characters a range is made of: two of ref names, and the dot
RangeChars == {"a", "b", "."}

\* s.includes(search)
includes(s, search) ==
    \E k \in 1..(Len(s) - Len(search) + 1) :
        SubSeq(s, k, k + Len(search) - 1) = search

\* s.indexOf(search), counted from 1; 0 when search does not occur
indexOf(s, search) ==
    IF includes(s, search)
    THEN CHOOSE k \in 1..(Len(s) - Len(search) + 1) :
            /\ SubSeq(s, k, k + Len(search) - 1) = search
            /\ \A m \in 1..(k - 1) : SubSeq(s, m, m + Len(search) - 1) # search
    ELSE 0

\* s.split(separator): the pieces between the successive occurrences of the
\* separator, found from left to right
RECURSIVE split(_, _)
split(s, separator) ==
    LET k == indexOf(s, separator)
    IN  IF k = 0 THEN <<s>>
        ELSE <<SubSeq(s, 1, k - 1)>> \o
             split(SubSeq(s, k + Len(separator), Len(s)), separator)

\* ref || "HEAD"
OrHead(ref) == IF ref = <<>> THEN HeadRef ELSE ref

\* parseGitRange: the first two pieces of the split, or the whole string
parseGitRange(r) ==
    IF includes(r, DotDot)
    THEN LET parts == split(r, DotDot)
         IN  [from |-> OrHead(parts[1]),
              to   |-> OrHead(IF Len(parts) >= 2 THEN parts[2] ELSE <<>>)]
    ELSE [from |-> r, to |-> HeadRef]

InitRange ==
    /\ pc = "range"
    /\ includedDepTypes = <<>>
    /\ basePackageJson = NoManifest
    /\ headPackageJson = NoManifest
    /\ dependencyChanges = <<>>
    /\ IdleDetect
    /\ IdleWriter
    /\ IdleRead
    /\ range \in SeqsUpTo(RangeChars, MaxRangeLen)
    /\ gitRange = NoRange
    /\ dryRun = FALSE
    /\ changesetDirectory = TRUE
    /\ createCalls = <<>>
    /\ diffSummary = <<>>

\* const { from, to } = parseGitRange(range)
ParseGitRange ==
    /\ pc = "range"
    /\ pc' = "parsed"
    /\ gitRange' = parseGitRange(range)
    /\ UNCHANGED <<analyzerVars, localVars, detectVars, writerVars, readVars>>
    /\ UNCHANGED <<range, dryRun, changesetDirectory, createCalls, diffSummary>>

NextRange == ParseGitRange

SpecRange == InitRange /\ [][NextRange]_vars

----------------------------------------------------------------------------
(* Claims about parseGitRange, checked under SpecRange *)

Parsed == pc = "parsed"

\* where the first ".." of the string starts
FirstDotDot(s) ==
    CHOOSE k \in 1..(Len(s) - 1) :
        /\ s[k] = "." /\ s[k + 1] = "."
        /\ \A m \in 1..(k - 1) : ~(s[m] = "." /\ s[m + 1] = ".")

HasDotDot(s) == \E k \in 1..(Len(s) - 1) : s[k] = "." /\ s[k + 1] = "."

\* C22: a range holding ".." is parsed into the text before its first ".."
\* as from and the text after it as to, an empty side being HEAD; a range
\* without ".." is parsed into itself as from and HEAD as to.
C22_RangeSplitsAtFirstDotDot ==
    Parsed =>
        IF HasDotDot(range)
        THEN LET k      == FirstDotDot(range)
                 before == SubSeq(range, 1, k - 1)
                 after  == SubSeq(range, k + 2, Len(range))
             IN  /\ gitRange.from = (IF before = <<>> THEN HeadRef ELSE before)
                 /\ gitRange.to = (IF after = <<>> THEN HeadRef ELSE after)
        ELSE gitRange = [from |-> range, to |-> HeadRef]

----------------------------------------------------------------------------
(* GitClientAdapter.getChangedFiles.  The repository holds, for each path   *)
(* and ref, either no file or the lines of the file; git diffSummary counts *)
(* the lines a minimal diff inserts and deletes.                            *)

\* the lines a manifest is made of: one per dependency entry
ManifestLines == {"lodash", "axios"}

Absent == [exists |-> FALSE, lines |-> <<>>]

Contents ==
    {[exists |-> TRUE, lines |-> ls] :
        ls \in {c \in SeqsUpTo(ManifestLines, MaxLines) : c # <<>>}}
    \cup {Absent}

BinaryPath == <<"logo.png">>

\* the paths of the repository, in the order in which git lists them
TrackedPaths == <<BinaryPath, AnalysedPath>>

Max(a, b) == IF a >= b THEN a ELSE b

\* length of a longest common subsequence of the lines of two files
RECURSIVE LcsLength(_, _)
LcsLength(a, b) ==
    IF a = <<>> \/ b = <<>> THEN 0
    ELSE IF Head(a) = Head(b) THEN 1 + LcsLength(Tail(a), Tail(b))
    ELSE Max(LcsLength(Tail(a), b), LcsLength(a, Tail(b)))

\* the entry of diffSummary for a path: line counts for a text file, none
\* for a binary one
DiffSummaryFile(path, base, head) ==
    IF path = BinaryPath
    THEN [file |-> path, binary |-> TRUE]
    ELSE [file |-> path, binary |-> FALSE,
          insertions |-> Len(head.lines) - LcsLength(base.lines, head.lines),
          deletions  |-> Len(base.lines) - LcsLength(base.lines, head.lines)]

\* git.diffSummary([fromRef, toRef]).files: the paths that differ
DiffSummaryFiles(repo) ==
    LET changed == SelectSeq(TrackedPaths,
                             LAMBDA path : repo[path].base # repo[path].head)
    IN  [k \in 1..Len(changed) |->
            DiffSummaryFile(changed[k], repo[changed[k]].base, repo[changed[k]].head)]

\* mapGitStatusToStatus, with file.insertions ?? 0 and file.deletions ?? 0
mapGitStatusToStatus(file) ==
    LET insertions == IF "insertions" \in DOMAIN file THEN file.insertions ELSE 0
        deletions  == IF "deletions" \in DOMAIN file THEN file.deletions ELSE 0
    IN  IF insertions > 0 /\ deletions = 0 THEN "added"
        ELSE IF insertions = 0 /\ deletions > 0 THEN "removed"
        ELSE "modified"

\* 'insertions' in file ? file : { insertions: 0, deletions: 0 }
TextFileOrZero(file) ==
    IF "insertions" \in DOMAIN file THEN file
    ELSE [insertions |-> 0, deletions |-> 0]

InitStatus ==
    /\ pc = "status"
    /\ includedDepTypes = <<"prod">>
    /\ basePackageJson = NoManifest
    /\ headPackageJson = NoManifest
    /\ dependencyChanges = <<>>
    /\ IdleDetect
    /\ IdleWriter
    /\ repository \in [Range(TrackedPaths) -> [base : Contents, head : Contents]]
    /\ promises = <<>>
    /\ completed = <<>>
    /\ IdleCli
    /\ diffSummary = <<>>

\* GitClientAdapter.getChangedFiles(fromRef, toRef)
GetChangedFiles ==
    /\ pc = "status"
    /\ pc' = "listed"
    /\ calls' = Append(calls, GetChangedFilesCall(FALSE))
    /\ diffSummary' = DiffSummaryFiles(repository)
    /\ files' = [k \in DOMAIN diffSummary' |->
                    [path   |-> diffSummary'[k].file,
                     status |-> mapGitStatusToStatus(TextFileOrZero(diffSummary'[k]))]]
    /\ UNCHANGED <<analyzerVars, localVars, packageJsonFiles, workspacePackages,
                   i, pkg, changedPackages, result>>
    /\ UNCHANGED <<writerVars, readVars, cliVars>>

\* the filter of getChangedPackageJsonFiles on what the adapter resolved with
FilterPackageJsonFiles ==
    /\ pc = "listed"
    /\ pc' = "filtered"
    /\ packageJsonFiles' = SelectSeq(files, IsChangedPackageJson)
    /\ UNCHANGED <<analyzerVars, localVars, files, workspacePackages, i, pkg,
                   changedPackages, result, calls>>
    /\ UNCHANGED <<writerVars, boundaryVars>>

NextStatus ==
    \/ GetChangedFiles
    \/ FilterPackageJsonFiles

SpecStatus == InitStatus /\ [][NextStatus]_vars

----------------------------------------------------------------------------
(* Claims about the Git adapter, checked under SpecStatus *)

\* the path holds a file at both refs, and the two files differ
EditedInPlace(path) ==
    /\ repository[path].base.exists
    /\ repository[path].head.exists
    /\ repository[path].base.lines # repository[path].head.lines

\* C29: a manifest that exists at both refs with different content gets a
\* status the detector's filter accepts (modified or added), so that it is
\* among the files the detector analyses, also when its edit only deleted
\* lines.
C29_EditedManifestIsAnalysed ==
    \A path \in Range(TrackedPaths) :
        (path[Len(path)] = "package.json" /\ EditedInPlace(path)) =>
            /\ pc \in {"listed", "filtered"} =>
                  \E f \in Range(files) :
                      f.path = path /\ f.status \in {"modified", "added"}
            /\ pc = "filtered" =>
                  \E f \in Range(packageJsonFiles) : f.path = path

----------------------------------------------------------------------------
(* The command: main.run from its arguments to its exit.  The detection it  *)
(* awaits is followed step by step under Spec; here the call is one step    *)
(* that makes the Git query and resolves with a list of records of the kind *)
(* a detection ends with, or rejects.  The writes of createChangesets are   *)
(* the steps of SpecWrite.                                                  *)

\* --range a, a.. and a..b
CliRanges == {<<"a">>, <<"a", ".", ".">>, <<"a", ".", ".", "b">>}

\* --release-type is any string: the three release types and another word
CliReleaseTypes == ReleaseTypes \cup {"prerelease"}

PrivateRecord ==
    [private |-> TRUE,
     package |-> MkPackage("pkg-p", Cwd \o <<"/", "packages", "/", "pkg-p">>,
                           <<"packages", "/", "pkg-p">>, "private")]

\* the records a detection gives: private ones, and public ones with changes
DetectedRecords ==
    {r \in PublicRecords : r.dependencyChanges # <<>>} \cup {PrivateRecord}

DetectionResults ==
    {records \in SeqsUpTo(DetectedRecords, MaxRecords) :
        \A k, m \in DOMAIN records :
            k # m => records[k].package.packageJson.name
                        # records[m].package.packageJson.name}

\* the checks of run with the release type left unchecked
ConfigurationErrorOfDirectoryOnly(directory, type) ==
    IF ~directory THEN "No .changeset directory found" ELSE ""

\* the two checks of run, in their order: the message of the error thrown,
\* or "" when the configuration is accepted
ConfigurationError(directory, type) ==
    IF ~directory THEN "No .changeset directory found"
    ELSE IF type \notin {"patch", "minor", "major"} THEN "Invalid release type"
    ELSE ""

\* changesets are created whatever the flag
SkipsCreateChangesetsNever(flag) == FALSE

\* if (!dryRun) { await createChangesets(...) }
SkipsCreateChangesets(flag) == flag

InitCli ==
    /\ pc = "cli"
    /\ includedDepTypes = <<"prod">>
    /\ basePackageJson = NoManifest
    /\ headPackageJson = NoManifest
    /\ dependencyChanges = <<>>
    /\ IdleDetect
    /\ summary = <<>>
    /\ publicPackages = <<>>
    /\ releaseType \in CliReleaseTypes
    /\ j = 0
    /\ changesetIds = <<>>
    /\ changesetDirectory \in BOOLEAN
    /\ changesets \in IF changesetDirectory THEN InitialChangesets ELSE {{}}
    /\ writes = <<>>
    /\ removed = {}
    /\ nextId = 1
    /\ history = <<>>
    /\ IdleRead
    /\ range \in CliRanges
    /\ gitRange = NoRange
    /\ dryRun \in BOOLEAN
    /\ createCalls = <<>>
    /\ diffSummary = <<>>

\* run up to its first await: the range is parsed, the configuration is
\* checked, the analyzer is constructed
Run ==
    /\ pc = "cli"
    /\ gitRange' = parseGitRange(range)
    /\ pc' = IF ConfigurationError(changesetDirectory, releaseType) # ""
             THEN "failed" ELSE "detecting"
    /\ UNCHANGED <<analyzerVars, localVars, detectVars, writerVars, readVars>>
    /\ UNCHANGED <<range, dryRun, changesetDirectory, createCalls, diffSummary>>

\* await analyzer.detectChangedPackages(cwd) and what follows it up to the
\* next await: the filter, the rendering and the call of createChangesets
DetectChangedPackages ==
    /\ pc = "detecting"
    /\ \/ /\ calls' = Append(calls,
                  [op |-> "getChangedFiles", from |-> gitRange.from,
                   to |-> gitRange.to, rejected |-> TRUE])
          /\ pc' = "failed"
          /\ UNCHANGED <<changedPackages, result, createCalls>>
          /\ UNCHANGED <<publicPackages, j, changesetIds, writes, removed, history>>
       \/ \E records \in DetectionResults :
             LET public == SelectSeq(records, LAMBDA r : ~r.private)
             IN  /\ calls' = Append(calls,
                        [op |-> "getChangedFiles", from |-> gitRange.from,
                         to |-> gitRange.to, rejected |-> FALSE])
                 /\ changedPackages' = records
                 /\ result' = records
                 /\ IF SkipsCreateChangesets(dryRun)
                    THEN /\ publicPackages' = public
                         /\ pc' = "exit"
                         /\ UNCHANGED <<createCalls, j, changesetIds, writes,
                                        removed, history>>
                    ELSE /\ createCalls' =
                               Append(createCalls,
                                      [changedPackages |-> public,
                                       releaseType |-> releaseType, cwd |-> Cwd])
                         /\ EnterCreateChangesets(public)
    /\ UNCHANGED <<analyzerVars, localVars, files, packageJsonFiles,
                   workspacePackages, i, pkg>>
    /\ UNCHANGED <<summary, releaseType, changesets, nextId>>
    /\ UNCHANGED <<readVars, range, gitRange, dryRun, changesetDirectory,
                   diffSummary>>

\* createChangesets resolved: renderResult(publicPackages.length, dryRun)
RenderResult ==
    /\ pc = "returned"
    /\ pc' = "exit"
    /\ UNCHANGED <<analyzerVars, localVars, detectVars, writerVars, boundaryVars>>

NextCli ==
    \/ Run
    \/ DetectChangedPackages
    \/ WriteChangeset
    \/ RenderResult

SpecCli == InitCli /\ [][NextCli]_vars

----------------------------------------------------------------------------
(* Claims about the command, checked under SpecCli *)

Exited == pc = "exit"

GitQueries == SelectSeq(calls, LAMBDA c : c.op = "getChangedFiles")

\* nothing was written to or removed from the .changeset directory
NothingPersisted ==
    /\ writes = <<>>
    /\ removed = {}
    /\ nextId = 1
    /\ \A c \in changesets : c.id <= 0

\* C21: with --dry-run the command detects and renders but never calls
\* createChangesets, and nothing is persisted; without it createChangesets
\* is called exactly once after a detection, with the records of the
\* detection that are not private and no others.
C21_DryRunCreatesNothing ==
    /\ dryRun => (createCalls = <<>> /\ history = <<>> /\ NothingPersisted)
    /\ Len(createCalls) <= 1
    /\ (~dryRun /\ pc \in {"writing", "returned", "rejected", "exit"}) =>
          /\ Len(createCalls) = 1
          /\ createCalls[1].changedPackages =
                SelectSeq(changedPackages, LAMBDA r : ~r.private)
          /\ \A r \in Range(createCalls[1].changedPackages) :
                ~r.private /\ ~FlaggedPrivate(r.package)

\* a dry run that detected a public and a private package and has exited
C21_Witness ==
    /\ Exited
    /\ dryRun
    /\ Len(GitQueries) = 1
    /\ Len(publicPackages) = 1
    /\ Len(changedPackages) = 2
    /\ createCalls = <<>>

\* C28: when the .changeset directory is missing or the release type is not
\* patch, minor or major, the command fails before the core is entered: no
\* Git query is ever made, createChangesets is never called and nothing is
\* persisted.
C28_ValidatedBeforeTheCore ==
    (~changesetDirectory \/ releaseType \notin {"patch", "minor", "major"}) =>
        /\ pc \in {"cli", "failed"}
        /\ calls = <<>>
        /\ createCalls = <<>>
        /\ NothingPersisted

\* a run with a .changeset directory and an unknown release type has failed
C28_Witness ==
    /\ pc = "failed"
    /\ changesetDirectory
    /\ releaseType \notin {"patch", "minor", "major"}
    /\ calls = <<>>
    /\ ~dryRun

====
